---- MODULE Spec2Model ----
(***************************************************************************)
(* A model of npbtool.py: the `time` subcommand (do_time: benchmark child, *)
(* output pipe, marker-scanning thread, duration report) and the `profile` *)
(* subcommand (do_profile: msr module load, benchmark child, delayed       *)
(* profiler thread, completion line).                                      *)
(*                                                                         *)
(* Real numbers (seconds, Mop/s) are integers counting thousandths.        *)
(* A text line is the sequence of its whitespace-delimited tokens.         *)
(* An optional value is <<>> (None) or <<v>>.                              *)
(***************************************************************************)
EXTENDS Integers, Sequences, FiniteSets, TLC

\* ------------------------------------------------------------------ bounds
\* the benchmark writes at most MaxLines lines
MaxLines == 3
\* lines the pipe between the benchmark and the harness can hold
PipeCap == 1
\* the wall clock advances at most MaxTicks times
MaxTicks == 2
\* thousandths of a second the clock advances in one tick
TickStep == 4

\* ------------------------------------------------------- optional values
None == <<>>

Some(v) == <<v>>

Val(x) == x[1]

\* ---------------------------------------------------------------- markers
SPLIT_MARKER == <<"Initialization", "time">>

MOP_S_MARKER == <<"Mop/s", "total">>

\* `marker in line`: the marker's text occurs in the line
Contains(line, marker) ==
    \E i \in 0..(Len(line) - Len(marker)) :
        SubSeq(line, i + 1, i + Len(marker)) = marker

\* the tokens float() accepts, among those the model's lines use
NumericTokens == {"12345.67", "1.239", "7", "0.5"}

\* float(tok), in thousandths
FloatOf(tok) ==
    CASE tok = "12345.67" -> 12345670
      [] tok = "1.239" -> 1239
      [] tok = "7" -> 7000
      [] tok = "0.5" -> 500

\* f"{x:.2f}": x (thousandths) rounded to the nearest hundredth, the result
\* counted in hundredths; a decimal tie goes to the even neighbour
Format2(x) ==
    LET q == x \div 10
        r == x % 10
    IN  IF r > 5 \/ (r = 5 /\ q % 2 = 1) THEN q + 1 ELSE q

\* ------------------------------------------------- the benchmark's output
PlainLine == <<"Class", "=", "B">>

SplitLine == <<"Initialization", "time", "=", "0.5", "seconds">>

MopLineA == <<"Mop/s", "total", "=", "12345.67">>

MopLineB == <<"Mop/s", "total", "=", "1.239">>

MopShort == <<"Mop/s", "total">>

MopBad == <<"Mop/s", "total", "=", "n/a">>

BothLine == <<"Mop/s", "total", "=", "7", "Initialization", "time">>

BenchLines ==
    {PlainLine, SplitLine, MopLineA, MopLineB, MopShort, MopBad, BothLine}

\* what /bin/sh prints when the command is missing or not executable
ShellDiag(kind) ==
    IF kind = "missing"
    THEN <<"/bin/sh:", "1:", "cmd:", "not", "found">>
    ELSE <<"/bin/sh:", "1:", "cmd:", "Permission", "denied">>

\* the exit status of /bin/sh in those cases
ShellStatus(kind) == IF kind = "missing" THEN 127 ELSE 126

\* ------------------------------------------------------------------ state
VARIABLES
    mode,                    \* the subcommand: "time" or "profile"
    msr,                     \* how `sudo modprobe msr` ended, "unset" before
    clock,                   \* time.time(), thousandths
    pcMain,                  \* position of the main flow
    exitCode,                \* exit code of the harness, None while it runs
    out,                     \* what the harness has printed, in order
    cmdKind,                 \* what args.command names
    childState,              \* benchmark process: "none", "running", "exited"
    exitStatus,              \* the benchmark's exit status, None until it exits
    produced,                \* the lines the benchmark has written
    pipe,                    \* lines written and not yet read
    childMore,               \* the benchmark has another line to write
    spawns,                  \* calls of Popen for the benchmark so far
    pcScan,                  \* position of the tail_output thread
    scanLine,                \* tail_output's `line`
    start_time,
    end_time,
    initialization_duration,
    mop_s,
    total_duration,
    runtime_duration,
    outDir,                  \* what the path out/ is: "absent", "dir", "file"
    dirCreated,              \* os.makedirs has returned
    benchLaunchedAt,         \* clock at the benchmark's launch
    pcProf,                  \* position of the run_profiler_on thread
    init_duration,
    run_duration,
    wakeAt,                  \* earliest instant time.sleep may return
    profState,               \* profiler process: "none", "running", "exited"
    profArg,                 \* the -d argument given to the profiler
    profSpawns,              \* calls of subprocess.run for the profiler so far
    profLaunchedAt           \* clock at the profiler's launch

procVars ==
    <<cmdKind, childState, exitStatus, produced, pipe, childMore, spawns,
      benchLaunchedAt>>

scanVars == <<pcScan, scanLine, initialization_duration, mop_s>>

timeVars == <<start_time, end_time, total_duration, runtime_duration>>

profVars ==
    <<outDir, dirCreated, pcProf, init_duration, run_duration, wakeAt,
      profState, profArg, profSpawns, profLaunchedAt>>

mainVars == <<mode, msr, pcMain, exitCode, out>>

vars == <<clock, mainVars, procVars, scanVars, timeVars, profVars>>

\* what the path out/ can be before the harness runs; only the profile
\* subcommand touches it
OutDirStates == {"absent", "dir", "file"}

Init ==
    /\ mode \in {"time", "profile"}
    /\ msr = "unset"
    /\ clock = 0
    /\ pcMain = "start"
    /\ exitCode = None
    /\ out = <<>>
    /\ cmdKind = "unset"
    /\ childState = "none"
    /\ exitStatus = None
    /\ produced = <<>>
    /\ pipe = <<>>
    /\ childMore = FALSE
    /\ spawns = 0
    /\ pcScan = "idle"
    /\ scanLine = <<>>
    /\ start_time = None
    /\ end_time = None
    /\ initialization_duration = None
    /\ mop_s = None
    /\ total_duration = None
    /\ runtime_duration = None
    /\ outDir \in (IF mode = "profile" THEN OutDirStates ELSE {"absent"})
    /\ dirCreated = FALSE
    /\ benchLaunchedAt = None
    /\ pcProf = "idle"
    /\ init_duration = None
    /\ run_duration = None
    /\ wakeAt = None
    /\ profState = "none"
    /\ profArg = None
    /\ profSpawns = 0
    /\ profLaunchedAt = None

\* ------------------------------------------------------------ environment
\* the wall clock advances; it is counted from the harness's first step and
\* no longer matters once the harness has ended
Tick ==
    /\ pcMain \notin {"start", "done", "error", "exited"}
    /\ clock < MaxTicks * TickStep
    /\ clock' = clock + TickStep
    /\ UNCHANGED <<mainVars, procVars, scanVars, timeVars, profVars>>

\* what args.command can name: a runnable benchmark, a path that does not
\* exist, a file without execute permission; "forkfail" is the operating
\* system refusing to create the /bin/sh process at all
CmdKinds == {"ok", "missing", "noperm", "forkfail"}

\* ------------------------------------------------------- do_time, main flow
\* subprocess.Popen(args.command, shell=True, ...): the process launched is
\* /bin/sh -c command, so Popen raises only when /bin/sh cannot be created
\* whether the process just launched has a line to write into the pipe: a
\* benchmark may or may not, /bin/sh has its diagnostic; in profile mode the
\* output goes to the inherited terminal and is no concern of the harness
FirstMore(kind) ==
    IF mode # "time" THEN {FALSE}
    ELSE IF kind = "ok" THEN {m \in BOOLEAN : m => MaxLines > 0}
    ELSE {TRUE}

Popen(kind) ==
    /\ cmdKind' = kind
    /\ spawns' = spawns + 1
    /\ IF kind = "forkfail"
       THEN /\ pcMain' = "error"
            /\ exitCode' = Some(1)
            /\ UNCHANGED <<childState, childMore, benchLaunchedAt>>
       ELSE /\ pcMain' = IF mode = "time" THEN "t_start_time"
                                            ELSE "p_thread_start"
            /\ childState' = "running"
            /\ childMore' \in FirstMore(kind)
            /\ benchLaunchedAt' = Some(clock)
            /\ UNCHANGED exitCode

TimePopen ==
    /\ mode = "time"
    /\ pcMain = "start"
    /\ \E kind \in CmdKinds : Popen(kind)
    /\ UNCHANGED <<mode, msr, out, clock, exitStatus, produced, pipe, scanVars,
                   timeVars, profVars>>

TimeStartTime ==
    /\ pcMain = "t_start_time"
    /\ start_time' = Some(clock)
    /\ initialization_duration' = None
    /\ mop_s' = None
    /\ pcMain' = "t_thread_start"
    /\ UNCHANGED <<mode, msr, exitCode, out, clock, procVars, pcScan, scanLine,
                   end_time, total_duration, runtime_duration, profVars>>

TimeThreadStart ==
    /\ pcMain = "t_thread_start"
    /\ pcScan' = "read"
    /\ pcMain' = "t_wait"
    /\ UNCHANGED <<mode, msr, exitCode, out, clock, procVars, scanLine,
                   initialization_duration, mop_s, timeVars, profVars>>

\* AfterWait as it would be if a non-zero exit status were treated as fatal
AfterWaitChecked(status, next) == IF status = 0 THEN next ELSE "error"

\* where process.wait() leaves the main flow: its return value, the
\* benchmark's exit status, is dropped
AfterWait(status, next) == next

TimeWait ==
    /\ pcMain = "t_wait"
    /\ childState = "exited"
    /\ pcMain' = AfterWait(Val(exitStatus), "t_end_time")
    /\ UNCHANGED <<mode, msr, exitCode, out, clock, procVars, scanVars, timeVars,
                   profVars>>

TimeEndTime ==
    /\ pcMain = "t_end_time"
    /\ end_time' = Some(clock)
    /\ pcMain' = "t_join"
    /\ UNCHANGED <<mode, msr, exitCode, out, clock, procVars, scanVars, start_time,
                   total_duration, runtime_duration, profVars>>

\* ScannerJoined as it would be without the thread.join() call
NoJoin == TRUE

\* thread.join() returns: tail_output has returned or died of an exception
ScannerJoined == pcScan \in {"done", "crashed"}

\* TimeJoin as it would be if the main flow went on without joining
TimeJoinEarly ==
    /\ pcMain = "t_join"
    /\ pcMain' = "t_compute"
    /\ UNCHANGED <<mode, msr, exitCode, out, clock, procVars, scanVars,
                   timeVars, profVars>>

TimeJoin ==
    /\ pcMain = "t_join"
    /\ ScannerJoined
    /\ pcMain' = "t_compute"
    /\ UNCHANGED <<mode, msr, exitCode, out, clock, procVars, scanVars, timeVars,
                   profVars>>

\* initialization_duration or 0.0
OrZero(x) == IF x = None \/ Val(x) = 0 THEN 0 ELSE Val(x)

\* RuntimeDuration as it would be if the subtraction were forgotten
RuntimeDurationNoInit(total, init) == total

RuntimeDuration(total, init) == total - init

TimeCompute ==
    /\ pcMain = "t_compute"
    /\ total_duration' = Some(Val(end_time) - Val(start_time))
    /\ initialization_duration' = Some(OrZero(initialization_duration))
    /\ runtime_duration' =
           Some(RuntimeDuration(Val(end_time) - Val(start_time),
                                OrZero(initialization_duration)))
    /\ pcMain' = "t_report"
    /\ UNCHANGED <<mode, msr, exitCode, out, clock, procVars, pcScan, scanLine,
                   mop_s, start_time, end_time, profVars>>

\* one printed line: what it is and the value or tokens it shows
Printed(kind, text) == [kind |-> kind, text |-> text]

\* the separator and the three duration lines
DurationLines(init, runtime, total) ==
    << Printed("separator", <<>>),
       Printed("Initialization duration", <<Format2(init)>>),
       Printed("Runtime duration", <<Format2(runtime)>>),
       Printed("Total execution duration", <<Format2(total)>>) >>

\* EmittedBeforeTypeError as it would be if the report were formatted as a
\* whole before any of it is printed
NothingEmitted(durations) == <<>>

\* what has been printed when formatting mop_s raises: the four print calls
\* before it have run
EmittedBeforeTypeError(durations) == durations

\* the five print calls; formatting None with .2f raises TypeError
TimeReport ==
    /\ pcMain = "t_report"
    /\ LET durations == DurationLines(Val(initialization_duration),
                                      Val(runtime_duration),
                                      Val(total_duration))
       IN  IF mop_s = None
           THEN /\ out' = out \o EmittedBeforeTypeError(durations)
                /\ pcMain' = "error"
                /\ exitCode' = Some(1)
           ELSE /\ out' = out \o durations
                            \o <<Printed("Mop/s", <<Format2(Val(mop_s))>>)>>
                /\ pcMain' = "done"
                /\ exitCode' = Some(0)
    /\ UNCHANGED <<mode, msr, clock, procVars, scanVars, timeVars, profVars>>

\* ---------------------------------------------------- the benchmark process
\* the lines the launched process can write
ChildLines ==
    IF cmdKind = "ok" THEN BenchLines ELSE {ShellDiag(cmdKind)}

\* whether the process has yet another line to write after n lines
NextMore(n) ==
    IF cmdKind = "ok" /\ n < MaxLines THEN BOOLEAN ELSE {FALSE}

\* the benchmark writes its next line into the pipe; the write blocks while
\* the pipe is full
ChildWrite ==
    /\ mode = "time"
    /\ childState = "running"
    /\ childMore
    /\ Len(pipe) < PipeCap
    /\ \E l \in ChildLines :
        /\ produced' = Append(produced, l)
        /\ pipe' = Append(pipe, l)
    /\ childMore' \in NextMore(Len(produced) + 1)
    /\ UNCHANGED <<clock, mainVars, cmdKind, childState, exitStatus, spawns,
                   benchLaunchedAt, scanVars, timeVars, profVars>>

\* the exit statuses the launched process can end with
ChildStatuses == IF cmdKind = "ok" THEN {0, 1} ELSE {ShellStatus(cmdKind)}

\* the benchmark exits once it has written all its lines
ChildExit ==
    /\ childState = "running"
    /\ ~childMore
    /\ \E s \in ChildStatuses : exitStatus' = Some(s)
    /\ childState' = "exited"
    /\ UNCHANGED <<clock, mainVars, cmdKind, produced, pipe, childMore, spawns,
                   benchLaunchedAt, scanVars, timeVars, profVars>>

\* ------------------------------------------------ do_time, tail_output thread
\* LineAvailable as it would be if the output were buffered until the
\* benchmark exits
LineAvailableAtExit == pipe # <<>> /\ childState = "exited"

\* the iteration over process.stdout yields a line as soon as one is in the
\* pipe
LineAvailable == pipe # <<>>

\* for line in process.stdout: print(line, end='')
ScanRead ==
    /\ pcScan = "read"
    /\ LineAvailable
    /\ scanLine' = Head(pipe)
    /\ pipe' = Tail(pipe)
    /\ out' = Append(out, Printed("echo", Head(pipe)))
    /\ pcScan' = "scan"
    /\ UNCHANGED <<clock, mode, msr, pcMain, exitCode, cmdKind, childState,
                   exitStatus, produced, childMore, spawns, benchLaunchedAt,
                   initialization_duration, mop_s, timeVars, profVars>>

\* EndOfStream as it would be if the loop ended whenever no line is waiting
EndOfStreamEarly == pipe = <<>>

\* end of stream: the pipe is empty and its writer has exited
EndOfStream == pipe = <<>> /\ childState = "exited"

\* the iteration over process.stdout ends
ScanEOF ==
    /\ pcScan = "read"
    /\ EndOfStream
    /\ pcScan' = "done"
    /\ UNCHANGED <<clock, mainVars, procVars, scanLine,
                   initialization_duration, mop_s, timeVars, profVars>>

\* NextInit as it would be without the `== None` test: the last match wins
NextInitLast(line, cur, now, start) ==
    IF Contains(line, SPLIT_MARKER) THEN Some(now - start) ELSE cur

\* if SPLIT_MARKER in line and initialization_duration == None: ...
NextInit(line, cur, now, start) ==
    IF Contains(line, SPLIT_MARKER) /\ cur = None
    THEN Some(now - start)
    ELSE cur

\* line.split()[3]
MopField(line) == line[4]

\* float(line.split()[3]) returns: the token exists and is a number
Parseable(line) == Len(line) >= 4 /\ MopField(line) \in NumericTokens

\* MopTest as it would be without the `== None` test: the last match wins
MopTestLast(line, cur) == Contains(line, MOP_S_MARKER)

\* the line's throughput test applies: MOP_S_MARKER in line and mop_s == None
MopTest(line, cur) == Contains(line, MOP_S_MARKER) /\ cur = None

\* the two marker tests on the line just echoed; an exception of float() or
\* of the indexing ends the thread
ScanMarkers ==
    /\ pcScan = "scan"
    /\ initialization_duration' =
           NextInit(scanLine, initialization_duration, clock, Val(start_time))
    /\ IF MopTest(scanLine, mop_s)
       THEN IF Parseable(scanLine)
            THEN /\ mop_s' = Some(FloatOf(MopField(scanLine)))
                 /\ pcScan' = "read"
            ELSE /\ pcScan' = "crashed"
                 /\ UNCHANGED mop_s
       ELSE /\ pcScan' = "read"
            /\ UNCHANGED mop_s
    /\ UNCHANGED <<clock, mainVars, procVars, scanLine, timeVars, profVars>>

\* ---------------------------------------------------- do_profile, main flow
\* how `sudo modprobe msr` can end: exit status 0, a non-zero exit status
\* (CalledProcessError), or sudo cannot be run at all (an OSError)
ModprobeResults == {"ok", "failed", "nosudo"}

\* Modprobe as it would be if the except branch lacked sys.exit(1)
ModprobeNoExit(result) ==
    CASE result = "ok" ->
           /\ pcMain' = "p_makedirs"
           /\ UNCHANGED <<out, exitCode>>
      [] result = "failed" ->
           /\ out' = Append(out, Printed("Error inserting msr kernel module",
                                         <<>>))
           /\ pcMain' = "p_makedirs"
           /\ UNCHANGED exitCode
      [] result = "nosudo" ->
           /\ pcMain' = "error"
           /\ exitCode' = Some(1)
           /\ UNCHANGED out

\* the try/except around subprocess.run(..., check=True): CalledProcessError
\* is caught, reported and turned into sys.exit(1); an OSError is not caught
Modprobe(result) ==
    CASE result = "ok" ->
           /\ pcMain' = "p_makedirs"
           /\ UNCHANGED <<out, exitCode>>
      [] result = "failed" ->
           /\ out' = Append(out, Printed("Error inserting msr kernel module",
                                         <<>>))
           /\ pcMain' = "exited"
           /\ exitCode' = Some(1)
      [] result = "nosudo" ->
           /\ pcMain' = "error"
           /\ exitCode' = Some(1)
           /\ UNCHANGED out

ProfModprobe ==
    /\ mode = "profile"
    /\ pcMain = "start"
    /\ \E result \in ModprobeResults :
        /\ msr' = result
        /\ Modprobe(result)
    /\ UNCHANGED <<mode, clock, procVars, scanVars, timeVars, profVars>>

\* MakedirsOk as it would be without exist_ok=True
MakedirsOkStrict(dir) == dir = "absent"

\* os.makedirs('out/', exist_ok=True) returns: out/ is absent, or it is a
\* directory already; it raises FileExistsError when out is a regular file
MakedirsOk(dir) == dir \in {"absent", "dir"}

\* os.makedirs('out/', exist_ok=True); its exception is not caught
ProfMakedirs ==
    /\ pcMain = "p_makedirs"
    /\ IF MakedirsOk(outDir)
       THEN /\ outDir' = "dir"
            /\ dirCreated' = TRUE
            /\ pcMain' = "p_popen"
            /\ UNCHANGED exitCode
       ELSE /\ pcMain' = "error"
            /\ exitCode' = Some(1)
            /\ UNCHANGED <<outDir, dirCreated>>
    /\ UNCHANGED <<mode, msr, out, clock, procVars, scanVars, timeVars,
                   pcProf, init_duration, run_duration, wakeAt, profState,
                   profArg, profSpawns, profLaunchedAt>>

ProfPopen ==
    /\ pcMain = "p_popen"
    /\ \E kind \in CmdKinds : Popen(kind)
    /\ UNCHANGED <<mode, msr, out, clock, exitStatus, produced, pipe, scanVars,
                   timeVars, profVars>>

\* the values of --init_duration and --run_duration, in thousandths
InitDurations == {0, 3, 8}

RunDurations == {400, 9000, 9700, 9999}

\* threading.Thread(target=run_profiler_on, args=(...)).start()
ProfThreadStart ==
    /\ pcMain = "p_thread_start"
    /\ \E i \in InitDurations, r \in RunDurations :
        /\ init_duration' = Some(i)
        /\ run_duration' = Some(r)
    /\ pcProf' = "sleep"
    /\ pcMain' = "p_wait"
    /\ UNCHANGED <<mode, msr, exitCode, out, clock, procVars, scanVars, timeVars,
                   outDir, dirCreated, wakeAt, profState, profArg, profSpawns,
                   profLaunchedAt>>

ProfWait ==
    /\ pcMain = "p_wait"
    /\ childState = "exited"
    /\ pcMain' = AfterWait(Val(exitStatus), "p_join")
    /\ UNCHANGED <<mode, msr, exitCode, out, clock, procVars, scanVars, timeVars,
                   profVars>>

\* ProfilerJoined as it would be without the thread.join() call
NoProfilerJoin == TRUE

\* thread.join() returns: run_profiler_on has returned or died of an exception
ProfilerJoined == pcProf \in {"done", "crashed"}

ProfJoin ==
    /\ pcMain = "p_join"
    /\ ProfilerJoined
    /\ pcMain' = "p_print"
    /\ UNCHANGED <<mode, msr, exitCode, out, clock, procVars, scanVars, timeVars,
                   profVars>>

ProfPrint ==
    /\ pcMain = "p_print"
    /\ out' = out \o << Printed("separator", <<>>),
                        Printed("Profiling complete", <<>>) >>
    /\ pcMain' = "done"
    /\ exitCode' = Some(0)
    /\ UNCHANGED <<mode, msr, clock, procVars, scanVars, timeVars, profVars>>

\* ------------------------------------------ do_profile, run_profiler_on thread
\* time.sleep(init_duration) is entered
ProfSleepBegin ==
    /\ pcProf = "sleep"
    /\ wakeAt' = Some(clock + Val(init_duration))
    /\ pcProf' = "sleeping"
    /\ UNCHANGED <<clock, mainVars, procVars, scanVars, timeVars, outDir,
                   dirCreated, init_duration, run_duration, profState,
                   profArg, profSpawns, profLaunchedAt>>

\* SleepOver as it would be if the profiler were launched without the delay
SleepSkipped == TRUE

\* time.sleep may return: at least init_duration has passed since its call
SleepOver == clock >= Val(wakeAt)

ProfSleepEnd ==
    /\ pcProf = "sleeping"
    /\ SleepOver
    /\ pcProf' = "launch"
    /\ UNCHANGED <<clock, mainVars, procVars, scanVars, timeVars, outDir,
                   dirCreated, init_duration, run_duration, wakeAt, profState,
                   profArg, profSpawns, profLaunchedAt>>

\* RunDurationS as it would be with round() in place of floor()
RunDurationRounded(r) == (r + 500) \div 1000

\* int(floor(run_duration)), whole seconds
RunDurationS(r) == r \div 1000

\* subprocess.run(profiler_command) launches the profiler, or raises when
\* UPROF_PCM_EXE cannot be executed, which ends the thread
ProfLaunch ==
    /\ pcProf = "launch"
    /\ profArg' = Some(RunDurationS(Val(run_duration)))
    /\ profSpawns' = profSpawns + 1
    /\ \E runnable \in BOOLEAN :
        IF runnable
        THEN /\ profState' = "running"
             /\ profLaunchedAt' = Some(clock)
             /\ pcProf' = "prof_wait"
        ELSE /\ pcProf' = "crashed"
             /\ UNCHANGED <<profState, profLaunchedAt>>
    /\ UNCHANGED <<clock, mainVars, procVars, scanVars, timeVars, outDir,
                   dirCreated, init_duration, run_duration, wakeAt>>

\* the profiler process ends
ProfilerExit ==
    /\ profState = "running"
    /\ profState' = "exited"
    /\ UNCHANGED <<clock, mainVars, procVars, scanVars, timeVars, outDir,
                   dirCreated, pcProf, init_duration, run_duration, wakeAt,
                   profArg, profSpawns, profLaunchedAt>>

\* ProfRunReturns as it would be if the profiler were run again while the
\* benchmark is still running
ProfRunReturnsAgain ==
    /\ pcProf = "prof_wait"
    /\ profState = "exited"
    /\ pcProf' = IF childState = "running" THEN "launch" ELSE "done"
    /\ UNCHANGED <<clock, mainVars, procVars, scanVars, timeVars, outDir,
                   dirCreated, init_duration, run_duration, wakeAt, profState,
                   profArg, profSpawns, profLaunchedAt>>

\* subprocess.run returns once the profiler has exited
ProfRunReturns ==
    /\ pcProf = "prof_wait"
    /\ profState = "exited"
    /\ pcProf' = "done"
    /\ UNCHANGED <<clock, mainVars, procVars, scanVars, timeVars, outDir,
                   dirCreated, init_duration, run_duration, wakeAt, profState,
                   profArg, profSpawns, profLaunchedAt>>

ProfileNext ==
    \/ ProfModprobe
    \/ ProfMakedirs
    \/ ProfPopen
    \/ ProfThreadStart
    \/ ProfWait
    \/ ProfJoin
    \/ ProfPrint
    \/ ProfSleepBegin
    \/ ProfSleepEnd
    \/ ProfLaunch
    \/ ProfilerExit
    \/ ProfRunReturns

TimeNext ==
    \/ TimePopen
    \/ TimeStartTime
    \/ TimeThreadStart
    \/ TimeWait
    \/ TimeEndTime
    \/ TimeJoin
    \/ TimeCompute
    \/ TimeReport
    \/ ScanRead
    \/ ScanEOF
    \/ ScanMarkers

Next ==
    \/ Tick
    \/ ChildWrite
    \/ ChildExit
    \/ TimeNext
    \/ ProfileNext

Spec == Init /\ [][Next]_vars

\* ============================================================== properties
\* the indices of `out` that echo a benchmark line
EchoIndices == {i \in 1..Len(out) : out[i].kind = "echo"}

\* the duration report has been printed
DurationReportEmitted ==
    \E i \in 1..Len(out) : out[i].kind = "Total execution duration"

\* the profile subcommand's completion line has been printed
CompletionPrinted == \E i \in 1..Len(out) : out[i].kind = "Profiling complete"

\* the report of the time subcommand has been computed
Computed == total_duration # None

\* the benchmark wrote a line with the throughput marker
MopProduced == \E i \in 1..Len(produced) : Contains(produced[i], MOP_S_MARKER)

\* the first such line
FirstMopLine ==
    produced[CHOOSE i \in 1..Len(produced) :
                /\ Contains(produced[i], MOP_S_MARKER)
                /\ \A j \in 1..(i - 1) : ~Contains(produced[j], MOP_S_MARKER)]

\* the time subcommand has ended, by its last print or by an exception
TimeEnded == mode = "time" /\ pcMain \in {"done", "error"} /\ cmdKind # "forkfail"

\* C1: in time mode the report satisfies total duration >= initialization
\* duration >= 0, in every interleaving of the child's exit, the recording
\* of the end instant and the scanner's reading of the split-marker line.
C1_DurationsOrdered ==
    Computed =>
        /\ Val(total_duration) >= Val(initialization_duration)
        /\ Val(initialization_duration) >= 0
        /\ Val(runtime_duration) >= 0

\* C2: the runtime duration is the total duration minus the initialization
\* duration; the initialization duration the report uses is the one the
\* scanner recorded, and 0 when it recorded none; when no output line has
\* the split marker the initialization duration is 0 and runtime = total.
C2_RuntimeIsTotalMinusInit ==
    /\ [](Computed =>
            /\ Val(runtime_duration) =
                   Val(total_duration) - Val(initialization_duration)
            /\ Val(total_duration) = Val(end_time) - Val(start_time)
            /\ (\A i \in 1..Len(produced) :
                    ~Contains(produced[i], SPLIT_MARKER))
                => /\ Val(initialization_duration) = 0
                   /\ Val(runtime_duration) = Val(total_duration))
    /\ [][pcMain = "t_compute" /\ pcMain' = "t_report" =>
            initialization_duration' =
                IF initialization_duration = None
                THEN Some(0)
                ELSE initialization_duration]_vars

C2_Witness ==
    /\ Computed
    /\ Val(initialization_duration) > 0
    /\ Val(runtime_duration) > 0

\* C3: each marker field is written at most once, on the first line that
\* has its marker: a set field never changes, and a field is set only while
\* the scanner handles a line with the marker that no earlier echoed line
\* had, to the elapsed time at that line (initialization duration) or to
\* the line's fourth token (throughput).
C3_FirstMatchWins ==
    [][/\ initialization_duration # None =>
            initialization_duration' = initialization_duration
       /\ mop_s # None => mop_s' = mop_s
       /\ (pcMain # "t_compute" /\ initialization_duration = None
           /\ initialization_duration' # None) =>
            /\ pcScan = "scan"
            /\ Contains(scanLine, SPLIT_MARKER)
            /\ initialization_duration' = Some(clock - Val(start_time))
            /\ \A i \in EchoIndices \ {Len(out)} :
                    ~Contains(out[i].text, SPLIT_MARKER)
       /\ (mop_s = None /\ mop_s' # None) =>
            /\ pcScan = "scan"
            /\ Contains(scanLine, MOP_S_MARKER)
            /\ mop_s' = Some(FloatOf(scanLine[4]))
            /\ \A i \in EchoIndices \ {Len(out)} :
                    ~Contains(out[i].text, MOP_S_MARKER)
      ]_vars

\* the scanner has handled two lines that both have the split marker
C3_Witness ==
    /\ pcScan = "read"
    /\ Cardinality(EchoIndices) = 2
    /\ \A i \in EchoIndices : Contains(out[i].text, SPLIT_MARKER)
    /\ initialization_duration # None
    /\ clock > Val(start_time) + Val(initialization_duration)

\* C4 as stated: when the first line with the throughput marker has a
\* numeric fourth token, the throughput the report shows equals exactly that
\* token's value.
C4_ReportedEqualsToken ==
    (TimeEnded /\ MopProduced /\ Parseable(FirstMopLine)) =>
        /\ pcMain = "done"
        /\ out[Len(out)].kind = "Mop/s"
        /\ out[Len(out)].text[1] * 10 = FloatOf(FirstMopLine[4])

\* C4 as amended: when the first line with the throughput marker has a
\* numeric fourth token, the throughput the report shows is that token's
\* value rounded to two decimal places.
C4_ReportedIsTokenRounded ==
    (TimeEnded /\ MopProduced /\ Parseable(FirstMopLine)) =>
        /\ pcMain = "done"
        /\ out[Len(out)] =
               Printed("Mop/s", <<Format2(FloatOf(FirstMopLine[4]))>>)

\* a later throughput line with another value follows the first
C4_Witness ==
    /\ TimeEnded
    /\ pcMain = "done"
    /\ produced = <<MopLineB, MopLineA>>

\* C5: the main flow reads or rewrites initialization_duration and mop_s
\* only after the scanner thread has ended.
C5_JoinBeforeRead ==
    (pcMain \in {"t_compute", "t_report"} \/ Computed) =>
        pcScan \in {"done", "crashed"}

C5_Witness ==
    /\ pcMain = "t_compute"
    /\ pcScan = "done"
    /\ initialization_duration # None
    /\ mop_s # None

\* C6: when the first line with the throughput marker has no parseable
\* fourth token, the harness aborts with the parse error and does not go on
\* to emit the duration report.
C6_ParseErrorAborts == pcScan = "crashed" => ~DurationReportEmitted

\* C7: when the benchmark command is missing or not executable, no timing
\* report is emitted, no profiler is launched and no completion line is
\* printed.
C7_SpawnFailureAborts ==
    cmdKind \in {"missing", "noperm"} =>
        /\ ~DurationReportEmitted
        /\ profState = "none"
        /\ ~CompletionPrinted

\* C8: the benchmark's exit status does not influence the harness: whatever
\* the status, the wait is followed by the same step, and the only failure
\* after the benchmark has exited is the missing-throughput one, which
\* comes after the duration report.
C8_ExitStatusIgnored ==
    /\ []((childState = "exited" /\ pcMain = "error") =>
            /\ mode = "time"
            /\ mop_s = None
            /\ DurationReportEmitted)
    /\ [][pcMain = "t_wait" /\ pcMain' # "t_wait" =>
            pcMain' = "t_end_time"]_vars
    /\ [][pcMain = "p_wait" /\ pcMain' # "p_wait" => pcMain' = "p_join"]_vars

\* a benchmark that exited with a non-zero status got its full report
C8_Witness ==
    /\ mode = "time"
    /\ cmdKind = "ok"
    /\ pcMain = "done"
    /\ Val(exitStatus) # 0
    /\ out[Len(out)].kind = "Mop/s"

\* C9: when loading the kernel module fails, the invocation exits with a
\* non-zero exit code, and the benchmark, the profiler thread and the
\* profiler are never started, out/ is not created and the completion line
\* is not printed.
C9_ModuleLoadFailureAborts ==
    msr \in {"failed", "nosudo"} =>
        /\ exitCode = Some(1)
        /\ pcMain \in {"exited", "error"}
        /\ childState = "none"
        /\ pcProf = "idle"
        /\ profState = "none"
        /\ ~dirCreated
        /\ ~CompletionPrinted

C9_Witness ==
    /\ msr = "failed"
    /\ exitCode = Some(1)
    /\ out # <<>>

\* C10: the profiler is launched no earlier than init_duration after the
\* benchmark was launched, and the delay starts after that launch.
C10_ProfilerAfterDelay ==
    /\ wakeAt # None =>
            Val(wakeAt) >= Val(benchLaunchedAt) + Val(init_duration)
    /\ profLaunchedAt # None =>
            Val(profLaunchedAt) >= Val(benchLaunchedAt) + Val(init_duration)

C10_Witness ==
    /\ profLaunchedAt # None
    /\ Val(init_duration) = 3
    /\ Val(profLaunchedAt) > Val(benchLaunchedAt) + Val(init_duration)

\* C11: the duration argument passed to the profiler is the integer floor
\* of run_duration: a run_duration in [n, n+1) seconds yields n.
C11_DurationArgIsFloor ==
    profArg # None =>
        /\ Val(profArg) * 1000 <= Val(run_duration)
        /\ Val(run_duration) < (Val(profArg) + 1) * 1000

\* 9.7 seconds were asked for and the profiler runs with -d 9
C11_Witness ==
    /\ profState = "running"
    /\ run_duration = Some(9700)
    /\ profArg = Some(9)

\* C12: in profile mode the order is module load, directory creation,
\* benchmark launch, delay, profiler launch: out/ is a directory before the
\* benchmark is launched and so before the profiler is; and creating it
\* succeeds both when out/ is absent and when it is a directory already.
C12_DirectoryBeforeLaunch ==
    /\ [](mode = "profile" =>
            /\ dirCreated => (msr = "ok" /\ outDir = "dir")
            /\ spawns > 0 => dirCreated
            /\ pcProf # "idle" => childState # "none"
            /\ profSpawns > 0 => (wakeAt # None /\ clock >= Val(wakeAt)))
    /\ [][(pcMain = "p_makedirs" /\ pcMain' # "p_makedirs"
           /\ outDir \in {"absent", "dir"}) =>
            (pcMain' = "p_popen" /\ outDir' = "dir" /\ dirCreated')]_vars

C12_Witness ==
    /\ profState = "running"
    /\ dirCreated
    /\ outDir = "dir"
    /\ Val(profLaunchedAt) > Val(benchLaunchedAt)

\* C13: the completion line is printed only when the benchmark process has
\* exited and the run_profiler_on thread has ended, so that no profiler
\* process is running or still to be launched: the profiler has exited, or
\* its launch failed and there is none.
C13_CompletionAfterBothExit ==
    CompletionPrinted =>
        /\ childState = "exited"
        /\ pcProf \in {"done", "crashed"}
        /\ profState \in {"exited", "none"}
        /\ profState = "none" => pcProf = "crashed"

\* printed after a profiler run that outlasted nothing: both have exited
C13_Witness ==
    /\ CompletionPrinted
    /\ childState = "exited"
    /\ profState = "exited"

\* C14: nothing is retried: the benchmark is launched at most once and the
\* profiler at most once, never in time mode; once Popen has been reached
\* it has been called exactly once, and a profile invocation that reaches
\* its completion line has called subprocess.run for the profiler exactly
\* once, also when the benchmark exited before the delay was over.
C14_SingleAttempt ==
    /\ spawns <= 1
    /\ profSpawns <= 1
    /\ cmdKind # "unset" => spawns = 1
    /\ mode = "time" => profSpawns = 0
    /\ (mode = "profile" /\ pcMain = "done") => (spawns = 1 /\ profSpawns = 1)

C14_Witness ==
    /\ mode = "profile"
    /\ pcMain = "done"
    /\ spawns = 1
    /\ profSpawns = 1
    /\ profState = "exited"

\* C15: echoing is live: the scanner runs while the main flow waits for the
\* child, and whenever it is at the top of its loop and a line is in the
\* pipe it can read and echo that line, whether or not the child has exited
\* and whatever the main flow is doing.
C15_EchoIsLive ==
    /\ pcMain = "t_wait" => pcScan # "idle"
    /\ (pcScan = "read" /\ pipe # <<>>) => ENABLED ScanRead

\* a line is echoed while the child runs and the main flow waits for it
C15_Witness ==
    /\ pcMain = "t_wait"
    /\ childState = "running"
    /\ EchoIndices # {}

\* the printed entry is an echo of a benchmark line
IsEcho(e) == e.kind = "echo"

\* the lines echoed so far, in order
EchoedLines ==
    LET es == SelectSeq(out, IsEcho)
    IN  [i \in 1..Len(es) |-> es[i].text]

\* what the harness itself has printed, in order
ReportPart == SelectSeq(out, LAMBDA e : ~IsEcho(e))

IsPrefix(a, b) == Len(a) <= Len(b) /\ SubSeq(b, 1, Len(a)) = a

\* C16 as stated: the echoed lines are always a prefix of the produced
\* lines, and whenever the scanner has ended every produced line has been
\* echoed, whatever the lines contain.
C16_ScannerDrainsStream ==
    /\ IsPrefix(EchoedLines, produced)
    /\ pcScan \in {"done", "crashed"} => EchoedLines = produced

\* C16 as amended: the echoed lines are always a prefix of the produced
\* lines; when the scanner has ended at end-of-stream every produced line
\* has been echoed; the scanner ends earlier only on a line with the
\* throughput marker and no parseable fourth token, met while no throughput
\* is recorded, and that line is the last one echoed.
C16_ScannerDrainsUnlessParseError ==
    /\ IsPrefix(EchoedLines, produced)
    /\ pcScan = "done" =>
            (EchoedLines = produced /\ pipe = <<>> /\ childState = "exited")
    /\ pcScan = "crashed" =>
            /\ EchoedLines # <<>>
            /\ EchoedLines[Len(EchoedLines)] = scanLine
            /\ Contains(scanLine, MOP_S_MARKER)
            /\ ~(Len(scanLine) >= 4 /\ scanLine[4] \in NumericTokens)
            /\ mop_s = None

C16_Witness ==
    /\ pcScan = "done"
    /\ Len(produced) = 2
    /\ EchoedLines = produced

\* C17: the session start instant is recorded before the benchmark child is
\* launched, so nothing the child does precedes it.
C17_StartBeforeLaunch ==
    (mode = "time" /\ childState # "none") =>
        /\ start_time # None
        /\ Val(start_time) <= Val(benchLaunchedAt)

\* C18: when no output line has the throughput marker, the time subcommand
\* prints the separator and the three duration lines, then fails formatting
\* the throughput: no Mop/s line, exit in error; and it fails only when no
\* throughput was recorded, never for a missing split marker alone.
C18_MissingThroughput ==
    /\ (TimeEnded /\ ~MopProduced) =>
            /\ pcMain = "error"
            /\ exitCode = Some(1)
            /\ ReportPart = DurationLines(Val(initialization_duration),
                                          Val(runtime_duration),
                                          Val(total_duration))
    /\ (TimeEnded /\ pcMain = "error") => mop_s = None
    /\ (TimeEnded /\ mop_s # None) => pcMain = "done"

C18_Witness ==
    /\ TimeEnded
    /\ pcMain = "error"
    /\ produced = <<PlainLine, SplitLine>>

\* the kinds of the report's lines, in the order of the print calls
ReportKinds ==
    << "separator", "Initialization duration", "Runtime duration",
       "Total execution duration", "Mop/s" >>

\* C19: in time mode the output is the echoed lines followed by the report
\* lines in the fixed order separator, initialization, runtime, total,
\* throughput: no echoed line comes after or between report lines.
C19_ReportAfterEchoes ==
    mode = "time" =>
        \E k \in 0..Len(out) :
            /\ \A i \in 1..k : out[i].kind = "echo"
            /\ Len(out) - k <= Len(ReportKinds)
            /\ \A j \in 1..(Len(out) - k) : out[k + j].kind = ReportKinds[j]

C19_Witness ==
    /\ mode = "time"
    /\ pcMain = "done"
    /\ Len(out) = 7
    /\ Cardinality(EchoIndices) = 2

\* a step of the benchmark or of the time subcommand
TimeProgress == ChildWrite \/ ChildExit \/ TimeNext

\* C20: no deadlock in time mode: as long as the harness has not finished,
\* the benchmark, the scanner or the main flow can take a step.
C20_NoDeadlock ==
    mode = "time" => (pcMain \in {"done", "error"} \/ ENABLED TimeProgress)

====
